---- MODULE Spec2Model ----
(***************************************************************************)
(* The newsletter agent's Lambda handler                                   *)
(* (newsletter-infra/lambdas/newsletter-agent/src/main.py).                *)
(*                                                                         *)
(* One invocation of handler(event, context) is a sequence of blocking     *)
(* calls: status-store writes (DynamoDB update_item), one news search, one *)
(* article extraction per result that carries a url, one summarizer run    *)
(* per collected article, and one article-writer run.  Each call is one    *)
(* step of the model; the straight-line code between two calls belongs to  *)
(* the step of the call before it.  Several invocations run concurrently   *)
(* and share only the status store.                                        *)
(*                                                                         *)
(* Texts.  The article the writer returns is a sequence of characters      *)
(* (json.dumps acts on characters).  The texts the summarization loop      *)
(* accumulates are sequences of pieces, each with its number of            *)
(* whitespace-delimited words: every piece the code appends ends in        *)
(* whitespace, so len(text.split()) of a concatenation is the sum of the   *)
(* pieces' word counts.  truncate_text is modelled on sequences of         *)
(* characters, and its effect on the word count is what the loop uses.     *)
(***************************************************************************)
EXTENDS Integers, Sequences, FiniteSets, TLC

\* ------------------------------------------------------------- universe

\* The concurrent invocations of the handler.
Invocations == {"i1", "i2"}

\* event["processId"] values; the submitter created one record for each.
PIDs == {"p1", "p2"}

\* event["question"] values.
Questions == {"q"}

\* Longest result list the search collaborator returns in the model.
MaxResults == 1

\* The article texts the writer returns in the model, as sequences of
\* characters: the empty text, a letter, and a text with a double quote.
Articles == {<<>>, <<"a">>, <<"a", "\"">>}

\* Word counts of the texts the summarizer returns in the model: short,
\* and longer than news_summary_length.
SummaryWords == {3, 5001}

\* The exceptions a call raises: e.args is empty or one message.
Exceptions == {[args |-> <<>>], [args |-> <<"boom">>]}

\* Longest result list the search collaborator returns where the collector
\* is studied: one result more than the five asked for.
MaxReturned == 6

\* Word counts of the summaries where the collector is studied.
ShortSummaries == {3}

\* Longest result list the search collaborator returns where the word
\* budget of the summarization loop is studied.
MaxSources == 3

\* Word counts of the summarizer's responses where the word budget is
\* studied: short; half the budget; the longest that, with its header and
\* separator, fills the budget exactly when it comes first; the budget;
\* one word more; the budget and a fifth.
SummaryLengths == {3, 2500, 4986, 5000, 5001, 6000}

\* Longest text truncate_text is called on, in characters.
MaxTextLen == 5

\* Largest number of words truncate_text is asked for.
MaxWords == 3

\* The characters of the texts truncate_text is called on: two letters,
\* the space and the newline.
Characters == {"a", "b", " ", "\n"}

\* The texts truncate_text is called on.
Texts == UNION {[1..n -> Characters] : n \in 0..MaxTextLen}

\* ------------------------------------------------------------- helpers

\* news_summary_length = 5000
news_summary_length == 5000

\* ddgs.news(keywords=question, max_results=5)
max_results == 5

Min(a, b) == IF a < b THEN a ELSE b

\* str(e) of an exception: "" without arguments, the message with one.
StrExc(e) == IF e.args = <<>> THEN "" ELSE e.args[1]

\* json.dumps of one character inside a string.
JsonEscape(c) == IF c = "\"" THEN <<"\\", "\"">>
                 ELSE IF c = "\\" THEN <<"\\", "\\">>
                 ELSE <<c>>

RECURSIVE JsonEscapeAll(_)
JsonEscapeAll(s) == IF s = <<>> THEN <<>>
                    ELSE JsonEscape(Head(s)) \o JsonEscapeAll(Tail(s))

\* json.dumps(res) of a str: the text escaped, between double quotes.
JsonDumps(s) == <<"\"">> \o JsonEscapeAll(s) \o <<"\"">>

\* The characters str.split() splits at.
Whitespace == {" ", "\n"}

RECURSIVE SplitFrom(_, _, _)
\* text.split() continued: toks are the tokens found, cur the token being
\* read, s the characters left.
SplitFrom(s, toks, cur) ==
    LET closed == IF cur = <<>> THEN toks ELSE Append(toks, cur)
    IN  IF s = <<>> THEN closed
        ELSE IF Head(s) \in Whitespace THEN SplitFrom(Tail(s), closed, <<>>)
        ELSE SplitFrom(Tail(s), toks, Append(cur, Head(s)))

\* text.split(): the maximal runs of characters that are not whitespace.
Split(s) == SplitFrom(s, <<>>, <<>>)

\* q[:n-1] in place of q[:n].
SliceOneLess(q, n) == IF n - 1 >= 0 THEN SubSeq(q, 1, Min(n - 1, Len(q)))
                      ELSE SubSeq(q, 1, Len(q) + n - 1)

\* q[:n]: the first n entries, all of q when it has fewer; for a negative
\* n, q without its last -n entries.
Slice(q, n) == IF n >= 0 THEN SubSeq(q, 1, Min(n, Len(q)))
               ELSE SubSeq(q, 1, Len(q) + n)

RECURSIVE JoinNoSpace(_)
\* "".join(toks)
JoinNoSpace(toks) == IF toks = <<>> THEN <<>>
                     ELSE Head(toks) \o JoinNoSpace(Tail(toks))

RECURSIVE Join(_)
\* " ".join(toks)
Join(toks) == IF toks = <<>> THEN <<>>
              ELSE IF Len(toks) = 1 THEN Head(toks)
              ELSE Head(toks) \o <<" ">> \o Join(Tail(toks))

\* " ".join(text.split()[:words]) on a text given by its characters.
truncate_text(t, n) == Join(Slice(Split(t), n))

\* len(truncate_text(summary, limit).split()) for a summary of n words.
TruncatedWords(n, limit) == Min(n, limit)

\* One piece of text with its word count; rank names the search result.
Piece(kind, rank, n) == [kind |-> kind, rank |-> rank, words |-> n]

RECURSIVE WordCount(_)
\* len(text.split()) of a text built from pieces.
WordCount(t) == IF t = <<>> THEN 0 ELSE Head(t).words + WordCount(Tail(t))

\* The four header lines of one article: "### {title}", "- Date: {date}",
\* "- URL: {url}", "#### Introduction" and "{body}".
HeaderPiece(r) == Piece("header", r.rank, 7 + r.title + r.date + r.url + r.body)

\* "#### Summary\n\n" + summary, for a summary of n words; response is
\* the word count of the summarizer's response the summary was made from.
SummaryPiece(r, response, n) ==
    [response |-> response] @@ Piece("summary", r.rank, 2 + n)

\* "\n\n---\n\n".
SeparatorPiece(r) == Piece("separator", r.rank, 1)

\* "# Topic: {question}\n\n" (a one-word question).
TopicPiece == Piece("topic", 0, 3)

\* "## Summary of News Articles", the sentence below it and "<news_summary>".
BlockOpenPieces == << Piece("block_title", 0, 5),
                      Piece("block_intro", 0, 11),
                      Piece("block_open", 0, 1) >>

\* "</news_summary>\n\n".
BlockClosePiece == Piece("block_close", 0, 1)

\* The draft with the summary block whether or not there is a summary.
ArticleDraftAlwaysBlock(ns) ==
    <<TopicPiece>> \o BlockOpenPieces \o ns \o <<BlockClosePiece>>

\* article_draft as lines 109-116 build it from news_summary.
ArticleDraft(ns) == IF ns # <<>>
                    THEN <<TopicPiece>> \o BlockOpenPieces \o ns \o <<BlockClosePiece>>
                    ELSE <<TopicPiece>>

\* One search result: its rank, whether it has a "url" key, and the word
\* counts of its title, date, url and body.
Result(rank, hasUrl) == [rank |-> rank, hasUrl |-> hasUrl,
                         title |-> 1, date |-> 1, url |-> 1, body |-> 1]

\* The result lists of at most m results, with and without "url" keys.
ResultListsUpTo(m) ==
    UNION {{[k \in 1..n |-> Result(k, f[k])] : f \in [1..n -> BOOLEAN]}
           : n \in 0..m}

\* The result lists the search collaborator may return.
ResultLists == ResultListsUpTo(MaxResults)

\* What get_article_data may return: None or an empty dict, a dict without
\* "text", a dict whose "text" is "", a dict with a non-empty "text".
ExtractReturns == {"none", "notext", "emptytext", "text"}

\* `article_data and "text" in article_data`
HasText(a) == a \in {"emptytext", "text"}

\* How an update_item call ends: it returns; it raises and nothing was
\* written; it raises although the item was written (the reply was lost).
StoreOutcomes == {"ok", "raise", "raise_applied"}

\* A store whose update_item calls all return.
Reliable == {"ok"}

\* ------------------------------------------------------------- state

VARIABLES
    store,         \* the process table: processId -> item (field -> value)
    pc,            \* where each invocation stands
    event,         \* each invocation's event
    results,       \* news results returned by the search
    idx,           \* position of the running for loop in its list
    news_results,  \* the collected articles
    news_summary,  \* the accumulated summaries
    article_draft, \* the draft handed to the writer
    res,           \* the writer's article
    exc,           \* the exception caught by `except Exception as e`
    response,      \* what the handler returned
    trace,         \* the calls each invocation has made, in order
    text,          \* truncate_text on its own: the text it is called on
    words,         \* truncate_text on its own: the number of words asked for
    truncated      \* truncate_text on its own: whether it was called, and
                   \* the text it returned

vars == << store, pc, event, results, idx, news_results, news_summary,
           article_draft, res, exc, response, trace, text, words, truncated >>

\* The variables of truncate_text called on its own.
truncation == << text, words, truncated >>

locals == << results, idx, news_results, news_summary, article_draft, res >>

NoEvent == [processId |-> "", question |-> ""]
NoException == [args |-> <<"">>]
NoResponse == [statusCode |-> 0]

\* The item the submitter created for every process.
PendingItem == [status |-> "PENDING"]

\* truncate_text has not been called.
NotTruncated == [called |-> FALSE, text |-> <<>>]

\* No invocation has been started.
NoInvocation ==
    /\ store = [p \in PIDs |-> PendingItem]
    /\ pc = [i \in Invocations |-> "idle"]
    /\ event = [i \in Invocations |-> NoEvent]
    /\ results = [i \in Invocations |-> <<>>]
    /\ idx = [i \in Invocations |-> 0]
    /\ news_results = [i \in Invocations |-> <<>>]
    /\ news_summary = [i \in Invocations |-> <<>>]
    /\ article_draft = [i \in Invocations |-> <<>>]
    /\ res = [i \in Invocations |-> <<>>]
    /\ exc = [i \in Invocations |-> NoException]
    /\ response = [i \in Invocations |-> NoResponse]
    /\ trace = [i \in Invocations |-> <<>>]

Init ==
    /\ NoInvocation
    /\ text = <<>>
    /\ words = 0
    /\ truncated = NotTruncated

\* ------------------------------------------------------------- calls

\* A trace entry for a collaborator call: it returned ("ok") or raised.
Call(op, outcome) == [op |-> op, outcome |-> outcome]

\* A trace entry for an update_item call.
Write(fields, outcome) == [op |-> "update_item", outcome |-> outcome, fields |-> fields]

Log(i, entry) == trace' = [trace EXCEPT ![i] = Append(@, entry)]

\* update_item with a SET expression: the named attributes are set, the
\* item's other attributes stay.
UpdateItem(item, fields) == fields @@ item

\* An update that is not restricted to the key: every item is written.
StoreAfterEveryItem(key, fields, outcome) ==
    IF outcome = "raise" THEN store
    ELSE [p \in PIDs |-> UpdateItem(store[p], fields)]

\* The store after invocation i's update_item(Key=key, SET fields) ended
\* with the given outcome.
StoreAfter(key, fields, outcome) ==
    IF outcome = "raise" THEN store
    ELSE [store EXCEPT ![key] = UpdateItem(@, fields)]

\* SET #status = :status with "PROCESSING"
ProcessingFields == [status |-> "PROCESSING"]

\* The result stored as the text itself, without json.dumps.
CompletedFieldsRaw(r) == [status |-> "COMPLETED", result |-> r]

\* The success write with the status of the first write.
CompletedFieldsWrongStatus(r) == [status |-> "PROCESSING", result |-> JsonDumps(r)]

\* SET #status = :status, #result = :result
CompletedFields(r) == [status |-> "COMPLETED", result |-> JsonDumps(r)]

\* The generic message stored in place of str(e).
FailedFieldsGeneric(e) ==
    [status |-> "FAILED", error |-> "An error occurred during processing"]

\* SET #status = :status, #error = :error
FailedFields(e) == [status |-> "FAILED", error |-> StrExc(e)]

\* The response of the success path.
SuccessResponse(pid, r) ==
    [statusCode |-> 200,
     body |-> [processId |-> pid,
               message |-> "Process completed successfully",
               result |-> r],
     headers |-> "application/json"]

\* The except path returning the text of the exception.
FailureResponseWithError(e) ==
    [statusCode |-> 500,
     body |-> [error |-> StrExc(e)],
     headers |-> "application/json"]

\* The response of the except path.
FailureResponse(e) ==
    [statusCode |-> 500,
     body |-> [error |-> "An error occurred during processing"],
     headers |-> "application/json"]

\* ------------------------------------------------------------- actions

\* The handler is entered: process_id and question are read from the event.
Invoke(i) ==
    /\ pc[i] = "idle"
    /\ \E p \in PIDs, q \in Questions :
          event' = [event EXCEPT ![i] = [processId |-> p, question |-> q]]
    /\ pc' = [pc EXCEPT ![i] = "set_processing"]
    /\ UNCHANGED << store, locals, exc, response, trace, truncation >>

\* The first update_item with its exception swallowed: the handler goes on.
SetProcessingSwallows(i, outcomes) ==
    /\ pc[i] = "set_processing"
    /\ \E o \in outcomes :
          /\ store' = [store EXCEPT ![event[i].processId] =
                           IF o = "raise" THEN @ ELSE [status |-> "PROCESSING"] @@ @]
          /\ trace' = [trace EXCEPT ![i] =
                           Append(@, [op |-> "update_item", outcome |-> o,
                                      fields |-> [status |-> "PROCESSING"]])]
          /\ pc' = [pc EXCEPT ![i] = "search"]
    /\ UNCHANGED << event, results, idx, news_results, news_summary,
                    article_draft, res, exc, response, truncation >>

\* The first update_item, outside the try: an exception leaves the handler.
SetProcessing(i, outcomes) ==
    /\ pc[i] = "set_processing"
    /\ \E o \in outcomes :
          /\ store' = StoreAfter(event[i].processId, ProcessingFields, o)
          /\ Log(i, Write(ProcessingFields, o))
          /\ pc' = [pc EXCEPT ![i] = IF o = "ok" THEN "search" ELSE "raised"]
    /\ UNCHANGED << event, locals, exc, response, truncation >>

\* The summarization loop left out: the writer comes right after the
\* collection loop.
AfterCollectSkipsLoop(rs, k, nr) == IF k <= Len(rs) THEN "extract" ELSE "compose"

\* Where the collection loop stands after position k-1 of rs: at the next
\* result, or past the loop: at the first summary, or at the writer.
AfterCollect(rs, k, nr) ==
    IF k <= Len(rs) THEN "extract"
    ELSE IF Len(nr) > 0 THEN "summarize" ELSE "compose"

\* The local variables of the try block hold nothing any more.
DropLocals(i) ==
    /\ results' = [results EXCEPT ![i] = <<>>]
    /\ idx' = [idx EXCEPT ![i] = 0]
    /\ news_results' = [news_results EXCEPT ![i] = <<>>]
    /\ news_summary' = [news_summary EXCEPT ![i] = <<>>]
    /\ article_draft' = [article_draft EXCEPT ![i] = <<>>]
    /\ res' = [res EXCEPT ![i] = <<>>]

\* The handler's frame is gone once it has returned or raised.
Leave(i) ==
    /\ DropLocals(i)
    /\ exc' = [exc EXCEPT ![i] = NoException]

\* No except clause: the exception leaves the handler.
CaughtUnhandled(i, e) ==
    /\ pc' = [pc EXCEPT ![i] = "raised"]
    /\ exc' = [exc EXCEPT ![i] = NoException]
    /\ DropLocals(i)

\* An exception raised inside the try is caught by the except clause,
\* which reads process_id and e and none of the try block's variables.
Caught(i, e) ==
    /\ pc' = [pc EXCEPT ![i] = "set_failed"]
    /\ exc' = [exc EXCEPT ![i] = e]
    /\ DropLocals(i)

\* article_draft once the loops are over and the writer is next: the code
\* from the end of the loops to the writer's call makes no call, and runs
\* with the step that ends the loops.
DraftAt(next, ns, old) == IF next = "compose" THEN ArticleDraft(ns) ELSE old

\* ddgs.news(keywords=question, max_results=5), the search returning one
\* of the given result lists or raising.
SearchFrom(i, lists) ==
    /\ pc[i] = "search"
    /\ \/ \E rs \in lists :
             LET next == AfterCollect(rs, 1, <<>>)
             IN  /\ results' = [results EXCEPT ![i] = rs]
                 /\ idx' = [idx EXCEPT ![i] = 1]
                 /\ pc' = [pc EXCEPT ![i] = next]
                 /\ article_draft' = [article_draft EXCEPT ![i] = DraftAt(next, <<>>, @)]
                 /\ Log(i, Call("news", "ok"))
                 /\ UNCHANGED << news_results, news_summary, res, exc >>
       \/ \E e \in Exceptions :
             /\ Caught(i, e)
             /\ Log(i, Call("news", "raise"))
    /\ UNCHANGED << store, event, response, truncation >>

Search(i) == SearchFrom(i, ResultLists)

\* The loop position after a pass: the next position while the same loop
\* runs on, the first position when the next loop starts.
LoopIdx(next, same, k) == IF next = same THEN k ELSE 1

\* The pass without the test of article_data: reading "text" from article
\* data that has none raises inside the try.
ExtractEscalates(i) ==
    /\ pc[i] = "extract"
    /\ LET r == results[i][idx[i]]
           k == idx[i] + 1
           Pass(nr) ==
               LET next == AfterCollect(results[i], k, nr)
               IN  /\ news_results' = [news_results EXCEPT ![i] = nr]
                   /\ pc' = [pc EXCEPT ![i] = next]
                   /\ idx' = [idx EXCEPT ![i] = LoopIdx(next, "extract", k)]
                   /\ article_draft' = [article_draft EXCEPT ![i] = DraftAt(next, <<>>, @)]
                   /\ UNCHANGED << results, news_summary, res, exc >>
       IN  \/ /\ ~r.hasUrl
              /\ Pass(news_results[i])
              /\ UNCHANGED trace
           \/ /\ r.hasUrl
              /\ \E a \in ExtractReturns :
                    /\ IF HasText(a)
                       THEN Pass(Append(news_results[i], [text |-> a] @@ r))
                       ELSE \E e \in Exceptions : Caught(i, e)
                    /\ Log(i, Call("get_article_data", "ok"))
           \/ /\ r.hasUrl
              /\ \E e \in Exceptions :
                    /\ Caught(i, e)
                    /\ Log(i, Call("get_article_data", "raise"))
    /\ UNCHANGED << store, event, response, truncation >>

\* One pass of `for r in results`: a result without "url" is skipped
\* without a call; otherwise get_article_data(r["url"]) is called and the
\* result is collected, with its text, when the article data has a "text".
Extract(i) ==
    /\ pc[i] = "extract"
    /\ LET r == results[i][idx[i]]
           k == idx[i] + 1
           Pass(nr) ==
               LET next == AfterCollect(results[i], k, nr)
               IN  /\ news_results' = [news_results EXCEPT ![i] = nr]
                   /\ pc' = [pc EXCEPT ![i] = next]
                   /\ idx' = [idx EXCEPT ![i] = LoopIdx(next, "extract", k)]
                   /\ article_draft' = [article_draft EXCEPT ![i] = DraftAt(next, <<>>, @)]
                   /\ UNCHANGED << results, news_summary, res, exc >>
       IN  \/ /\ ~r.hasUrl
              /\ Pass(news_results[i])
              /\ UNCHANGED trace
           \/ /\ r.hasUrl
              /\ \E a \in ExtractReturns :
                    /\ Pass(IF HasText(a)
                            THEN Append(news_results[i], [text |-> a] @@ r)
                            ELSE news_results[i])
                    /\ Log(i, Call("get_article_data", "ok"))
           \/ /\ r.hasUrl
              /\ \E e \in Exceptions :
                    /\ Caught(i, e)
                    /\ Log(i, Call("get_article_data", "raise"))
    /\ UNCHANGED << store, event, response, truncation >>

\* The loop left after its first pass, whatever the summary's length.
AfterSummaryStopsFirst(nr, k, ns) == "compose"

\* The loop without its `break`.
AfterSummaryNoBreak(nr, k, ns) == IF k <= Len(nr) THEN "summarize" ELSE "compose"

\* The `break` at twice news_summary_length.
AfterSummaryBreaksLate(nr, k, ns) ==
    IF WordCount(ns) > 2 * news_summary_length THEN "compose"
    ELSE IF k <= Len(nr) THEN "summarize" ELSE "compose"

\* Where the summarization loop stands after appending to the summary ns
\* at position k-1 of nr: `break` once the summary has more than
\* news_summary_length words, else the next article, else the writer.
AfterSummary(nr, k, ns) ==
    IF WordCount(ns) > news_summary_length THEN "compose"
    ELSE IF k <= Len(nr) THEN "summarize" ELSE "compose"

\* The summary appended as the summarizer returned it.
BoundedNever(n) == n

\* The summary as appended: truncated when it is longer than
\* news_summary_length words.
Bounded(n) == IF n > news_summary_length
              THEN TruncatedWords(n, news_summary_length)
              ELSE n

\* One pass of `for news_result in news_results`: the header lines are
\* appended, article_summarizer.run is called, its summary is bounded and
\* appended with the separator, and the loop breaks on a long summary.
\* The summarizer returns a text of one of the given lengths, or raises.
SummarizeWith(i, lengths) ==
    /\ pc[i] = "summarize"
    /\ LET r == news_results[i][idx[i]]
           k == idx[i] + 1
           withHeader == Append(news_summary[i], HeaderPiece(r))
       IN  \/ \E n \in lengths :
                 LET ns == withHeader \o << SummaryPiece(r, n, Bounded(n)), SeparatorPiece(r) >>
                     next == AfterSummary(news_results[i], k, ns)
                 IN  /\ news_summary' = [news_summary EXCEPT ![i] = ns]
                     /\ pc' = [pc EXCEPT ![i] = next]
                     /\ idx' = [idx EXCEPT ![i] = k]
                     /\ article_draft' = [article_draft EXCEPT ![i] = DraftAt(next, ns, @)]
                     /\ Log(i, Call("summarizer", "ok"))
                     /\ UNCHANGED << results, news_results, res, exc >>
           \/ \E e \in Exceptions :
                 /\ Caught(i, e)
                 /\ Log(i, Call("summarizer", "raise"))
    /\ UNCHANGED << store, event, response, truncation >>

Summarize(i) == SummarizeWith(i, SummaryWords)

\* article_writer.run(article_draft, stream=False)
Compose(i) ==
    /\ pc[i] = "compose"
    /\ \/ \E a \in Articles :
             /\ res' = [res EXCEPT ![i] = a]
             /\ pc' = [pc EXCEPT ![i] = "set_completed"]
             /\ Log(i, Call("writer", "ok"))
             /\ UNCHANGED << results, idx, news_results, news_summary, article_draft, exc >>
       \/ \E e \in Exceptions :
             /\ Caught(i, e)
             /\ Log(i, Call("writer", "raise"))
    /\ UNCHANGED << store, event, response, truncation >>

\* The update_item of the success path, inside the try, and the return
\* that follows it: an exception of the write is caught like any other.
SetCompleted(i, outcomes) ==
    /\ pc[i] = "set_completed"
    /\ \E o \in outcomes :
          /\ store' = StoreAfter(event[i].processId, CompletedFields(res[i]), o)
          /\ Log(i, Write(CompletedFields(res[i]), o))
          /\ IF o = "ok"
             THEN /\ pc' = [pc EXCEPT ![i] = "returned"]
                  /\ response' = [response EXCEPT ![i] =
                                     SuccessResponse(event[i].processId, res[i])]
                  /\ Leave(i)
             ELSE /\ \E e \in Exceptions : Caught(i, e)
                  /\ UNCHANGED response
    /\ UNCHANGED << event, truncation >>

\* The update_item of the except clause and the return that follows it:
\* an exception of this write leaves the handler.
SetFailed(i, outcomes) ==
    /\ pc[i] = "set_failed"
    /\ \E o \in outcomes :
          /\ store' = StoreAfter(event[i].processId, FailedFields(exc[i]), o)
          /\ Log(i, Write(FailedFields(exc[i]), o))
          /\ IF o = "ok"
             THEN /\ pc' = [pc EXCEPT ![i] = "returned"]
                  /\ response' = [response EXCEPT ![i] = FailureResponse(exc[i])]
             ELSE /\ pc' = [pc EXCEPT ![i] = "raised"]
                  /\ UNCHANGED response
    /\ Leave(i)
    /\ UNCHANGED << event, truncation >>

\* The steps of an invocation once the handler has been entered.
Run(i, outcomes) ==
    \/ SetProcessing(i, outcomes)
    \/ Search(i)
    \/ Extract(i)
    \/ Summarize(i)
    \/ Compose(i)
    \/ SetCompleted(i, outcomes)
    \/ SetFailed(i, outcomes)

Next == \E i \in Invocations : Invoke(i) \/ Run(i, StoreOutcomes)

\* The invocations, interleaved in every way, on a store whose writes may
\* raise.
Spec == Init /\ [][Next]_vars

NextReliable == \E i \in Invocations : Invoke(i) \/ Run(i, Reliable)

\* The invocations, interleaved in every way, on a store whose writes all
\* return.
SpecReliable == Init /\ [][NextReliable]_vars

\* One invocation on its own.  Every call it makes returns or raises in
\* the end, so a started invocation that can take a step takes it.
Alone == CHOOSE i \in Invocations : TRUE

NextAlone == Invoke(Alone) \/ Run(Alone, StoreOutcomes)

SpecAlone == Init /\ [][NextAlone]_vars /\ WF_vars(Run(Alone, StoreOutcomes))

\* The steps of an invocation whose search returns one of the given
\* lists and whose summarizer returns texts of the given lengths.
RunWith(i, outcomes, lists, lengths) ==
    \/ SetProcessing(i, outcomes)
    \/ SearchFrom(i, lists)
    \/ Extract(i)
    \/ SummarizeWith(i, lengths)
    \/ Compose(i)
    \/ SetCompleted(i, outcomes)
    \/ SetFailed(i, outcomes)

NextCollector ==
    Invoke(Alone) \/ RunWith(Alone, Reliable, ResultListsUpTo(MaxReturned), ShortSummaries)

\* One invocation whose search returns any list of up to MaxReturned
\* results, on a store whose writes all return.
SpecCollector == Init /\ [][NextCollector]_vars

NextBudget ==
    Invoke(Alone) \/ RunWith(Alone, Reliable, ResultListsUpTo(MaxSources), SummaryLengths)

\* One invocation with up to MaxSources sources and summaries of every
\* length around the budget, on a store whose writes all return.
SpecBudget == Init /\ [][NextBudget]_vars

InitTruncate ==
    /\ NoInvocation
    /\ text \in Texts
    /\ words \in 0..MaxWords
    /\ truncated = NotTruncated

\* truncate_text(text, words) is called and returns.
Truncate ==
    /\ ~truncated.called
    /\ truncated' = [called |-> TRUE, text |-> truncate_text(text, words)]
    /\ UNCHANGED << store, pc, event, locals, exc, response, trace, text, words >>

\* truncate_text called once, on any text and any number of words.
SpecTruncate == InitTruncate /\ [][Truncate]_vars

\* ------------------------------------------------------------- claims

Last(q) == q[Len(q)]

IsWrite(t) == t.op = "update_item"

IsCall(t) == t.op \in {"news", "get_article_data", "summarizer", "writer"}

\* An update_item that sets status COMPLETED or FAILED.
IsTerminalWrite(t) == IsWrite(t) /\ t.fields.status \in {"COMPLETED", "FAILED"}

IsFailedWrite(t) == IsWrite(t) /\ t.fields.status = "FAILED"

IsCompletedWrite(t) == IsWrite(t) /\ t.fields.status = "COMPLETED"

IsProcessingWrite(t) == IsWrite(t) /\ t.fields.status = "PROCESSING"

\* The positions of the entries of q that satisfy Test.
Positions(q, Test(_)) == {k \in 1..Len(q) : Test(q[k])}

Count(q, Test(_)) == Cardinality(Positions(q, Test))

\* The invocation has returned a response or an exception has left it.
Ended(i) == pc[i] \in {"returned", "raised"}

Started(i) == pc[i] # "idle"

\* None of the invocation's update_item calls has raised.
NoWriteRaised(i) ==
    \A k \in Positions(trace[i], IsWrite) : trace[i][k].outcome = "ok"

\* A search, extraction, summarizer or writer call of the invocation raised.
StageRaised(i) ==
    \E k \in Positions(trace[i], IsCall) : trace[i][k].outcome = "raise"

\* The item of the invocation's process.
Item(i) == store[event[i].processId]

\* json.loads of a JSON string: the text between the quotes, unescaped.
RECURSIVE JsonUnescape(_)
JsonUnescape(s) ==
    IF s = <<>> THEN <<>>
    ELSE IF Head(s) = "\\" /\ Len(s) >= 2
         THEN <<s[2]>> \o JsonUnescape(Tail(Tail(s)))
         ELSE <<Head(s)>> \o JsonUnescape(Tail(s))

JsonLoads(s) ==
    IF Len(s) >= 2 /\ Head(s) = "\"" /\ Last(s) = "\""
    THEN JsonUnescape(SubSeq(s, 2, Len(s) - 1))
    ELSE <<"invalid">>

StatusMove(a, b) ==
    \/ a = b
    \/ a = "PENDING" /\ b = "PROCESSING"
    \/ a = "PROCESSING" /\ b \in {"COMPLETED", "FAILED"}

\* C2: the stored status of every process only moves along PENDING ->
\* PROCESSING -> {COMPLETED, FAILED}; once it is COMPLETED or FAILED it
\* never changes again, duplicate and concurrent invocations included.
C2_TerminalIsFinal ==
    [][\A p \in PIDs : StatusMove(store[p].status, store'[p].status)]_vars

\* C3: in every reachable state of the store an item has a result
\* exactly when its status is COMPLETED and an error exactly when its
\* status is FAILED.
C3_FieldsMatchStatus ==
    \A p \in PIDs :
        /\ "result" \in DOMAIN store[p] <=> store[p].status = "COMPLETED"
        /\ "error" \in DOMAIN store[p] <=> store[p].status = "FAILED"

\* Invocation i takes its step of the except clause: the FAILED write.
FailedWriteStep(i) == pc[i] = "set_failed" /\ pc'[i] # "set_failed"

\* The stage that raised is the reason of the FAILED write (the other
\* reason is a COMPLETED write that raised).
FailedByStage(i) == pc[i] = "set_failed" /\ StageRaised(i)

\* The item keeps its result, or its lack of one.
SameResult(old, new) ==
    /\ "result" \in DOMAIN new <=> "result" \in DOMAIN old
    /\ "result" \in DOMAIN old => new.result = old.result

\* The item keeps its error, or its lack of one.
SameError(old, new) ==
    /\ "error" \in DOMAIN new <=> "error" \in DOMAIN old
    /\ "error" \in DOMAIN old => new.error = old.error

\* C4 as stated: when a stage has raised, the invocation's one write
\* leaves its item FAILED with a non-empty error, sets no result, and the
\* invocation returns status code 500.
C4_FailedNonEmptyError ==
    [][\A i \in Invocations :
          FailedWriteStep(i) /\ FailedByStage(i) =>
              /\ Item(i)'.status = "FAILED"
              /\ "error" \in DOMAIN Item(i)' /\ Item(i)'.error # ""
              /\ SameResult(Item(i), Item(i)')
              /\ response'[i].statusCode = 500]_vars

\* C4 as amended: when a stage has raised with exception e, the
\* invocation makes one write that sets status FAILED and error str(e)
\* together (str(e) may be empty) and sets no result; if that write
\* returns, the item is FAILED with that error right after it and the
\* invocation returns status code 500; if it raises, no response is
\* returned.
C4_FailedWithError ==
    [][\A i \in Invocations :
          FailedWriteStep(i) /\ FailedByStage(i) =>
              /\ Last(trace'[i]).fields = [status |-> "FAILED", error |-> StrExc(exc[i])]
              /\ Len(trace'[i]) = Len(trace[i]) + 1
              /\ SameResult(Item(i), Item(i)')
              /\ Last(trace'[i]).outcome # "raise" =>
                    Item(i)'.status = "FAILED" /\ Item(i)'.error = StrExc(exc[i])
              /\ Last(trace'[i]).outcome = "raise" => Item(i)' = Item(i)
              /\ IF Last(trace'[i]).outcome = "ok"
                 THEN pc'[i] = "returned" /\ response'[i].statusCode = 500
                 ELSE pc'[i] = "raised" /\ response'[i] = NoResponse]_vars

\* A stage raised an exception without a message, and the invocation has
\* returned 500 leaving its item FAILED with the empty error.
C4_Witness ==
    \E i \in Invocations :
        /\ pc[i] = "returned" /\ StageRaised(i)
        /\ response[i].statusCode = 500
        /\ Item(i).status = "FAILED" /\ Item(i).error = ""

\* Invocation i takes its step of the success path: the COMPLETED write.
CompletedWriteStep(i) == pc[i] = "set_completed" /\ pc'[i] # "set_completed"

\* No item is COMPLETED without a result.
CompletedHasResult(st) ==
    \A p \in PIDs : st[p].status = "COMPLETED" => "result" \in DOMAIN st[p]

\* C5 as stated: when every stage has succeeded, one write sets status
\* COMPLETED and result, the stored result is exactly the writer's text,
\* the response has status code 200 and carries the processId and the
\* text, and no item is ever COMPLETED without a result.
C5_ResultIsText ==
    [][/\ \A i \in Invocations :
             CompletedWriteStep(i) =>
                 /\ Item(i)'.status = "COMPLETED"
                 /\ "result" \in DOMAIN Item(i)' /\ Item(i)'.result = res[i]
                 /\ response'[i].statusCode = 200
                 /\ response'[i].body.processId = event[i].processId
                 /\ response'[i].body.result = res[i]
       /\ CompletedHasResult(store')]_vars

\* C5 as amended: when every stage has succeeded and the COMPLETED write
\* returns, that one write has set status COMPLETED and result together,
\* the stored result is the JSON encoding of the writer's text (the text
\* in double quotes, escaped), which decodes to exactly that text, the
\* response has status code 200 and carries the processId and the text
\* itself; and no item is ever COMPLETED without a result.
C5_ResultIsJsonOfText ==
    [][/\ \A i \in Invocations :
             CompletedWriteStep(i) /\ pc'[i] = "returned" =>
                 /\ Item(i)'.status = "COMPLETED"
                 /\ "result" \in DOMAIN Item(i)'
                 /\ JsonLoads(Item(i)'.result) = res[i]
                 /\ Head(Item(i)'.result) = "\"" /\ Len(Item(i)'.result) >= Len(res[i]) + 2
                 /\ SameError(Item(i), Item(i)')
                 /\ Count(trace'[i], IsCompletedWrite) = 1
                 /\ response'[i].statusCode = 200
                 /\ response'[i].body.processId = event[i].processId
                 /\ response'[i].body.result = res[i]
       /\ CompletedHasResult(store')]_vars

\* An invocation has returned 200 with a text that holds a double quote,
\* and its item is COMPLETED with the encoded text.
C5_Witness ==
    \E i \in Invocations :
        /\ pc[i] = "returned" /\ response[i].statusCode = 200
        /\ response[i].body.result = <<"a", "\"">>
        /\ Item(i).status = "COMPLETED"
        /\ Item(i).result = <<"\"", "a", "\\", "\"", "\"">>

IsSummarizerCall(t) == t.op = "summarizer"

IsWriterCall(t) == t.op = "writer"

IsExtractCall(t) == t.op = "get_article_data"

HasKind(kind, d) == {k \in 1..Len(d) : d[k].kind = kind}

C6_WitnessBlock ==
    \E i \in Invocations :
        /\ pc[i] = "compose" /\ news_results[i] # <<>>
        /\ Len(article_draft[i]) > 1

\* The update_item calls of the invocation that raised.
RaisedWrites(i) == {k \in Positions(trace[i], IsWrite) : trace[i][k].outcome # "ok"}

\* C7 as stated: a status write that raises (the PROCESSING, COMPLETED or
\* FAILED write) is the invocation's last call: the exception leaves the
\* handler, no response is returned and no further write is attempted.
C7_WriteFailurePropagates ==
    \A i \in Invocations : \A k \in RaisedWrites(i) :
        /\ k = Len(trace[i])
        /\ pc[i] = "raised"
        /\ response[i] = NoResponse

\* C7 as amended: a PROCESSING or FAILED write that raises is the
\* invocation's last call: the exception leaves the handler and no
\* response is returned.  A COMPLETED write that raises is caught by the
\* except clause: the FAILED write is the next and last call, and the
\* invocation returns the 500 response if it returns, and raises if not.
C7_WriteFailure ==
    \A i \in Invocations : \A k \in RaisedWrites(i) :
        IF IsCompletedWrite(trace[i][k])
        THEN \/ /\ k = Len(trace[i])
                /\ pc[i] = "set_failed"
                /\ response[i] = NoResponse
             \/ /\ k + 1 = Len(trace[i])
                /\ IsFailedWrite(trace[i][k + 1])
                /\ IF trace[i][k + 1].outcome = "ok"
                   THEN pc[i] = "returned" /\ response[i].statusCode = 500
                   ELSE pc[i] = "raised" /\ response[i] = NoResponse
        ELSE /\ k = Len(trace[i])
             /\ pc[i] = "raised"
             /\ response[i] = NoResponse

\* A COMPLETED write raised, the FAILED write after it returned, and the
\* invocation has returned 500.
C7_Witness ==
    \E i \in Invocations :
        /\ pc[i] = "returned" /\ response[i].statusCode = 500
        /\ \E k \in RaisedWrites(i) : IsCompletedWrite(trace[i][k])

\* The invocation has returned from the except clause.
FailedReturn(i) == pc[i] = "returned" /\ IsFailedWrite(Last(trace[i]))

\* C8: the response of a caught failure does not depend on the failure:
\* any two invocations that failed return the same response, with status
\* code 500 and a body that holds the generic message and nothing else;
\* the error text is in the item's error field alone.
C8_SameFailureResponse ==
    \A i, j \in Invocations :
        FailedReturn(i) /\ FailedReturn(j) =>
            /\ response[i] = response[j]
            /\ response[i].statusCode = 500
            /\ DOMAIN response[i].body = {"error"}
            /\ response[i].body.error = "An error occurred during processing"
            /\ response[i].body.error # Last(trace[i]).fields.error

\* Two invocations have failed with different errors.
C8_Witness ==
    \E i, j \in Invocations :
        /\ FailedReturn(i) /\ FailedReturn(j)
        /\ Last(trace[i]).fields.error # Last(trace[j]).fields.error

TerminalStatus == {"COMPLETED", "FAILED"}

StartedOn(p) == {i \in Invocations : Started(i) /\ event[i].processId = p}

RECURSIVE ApplyWrites(_, _)
\* The item after the update_item calls of q that were written.
ApplyWrites(item, q) ==
    IF q = <<>> THEN item
    ELSE ApplyWrites(IF IsWrite(Head(q)) /\ Head(q).outcome # "raise"
                     THEN Head(q).fields @@ item
                     ELSE item,
                     Tail(q))

\* C10: invocations for different processes never interfere, however
\* they interleave: the item of a process no invocation was started for
\* is as the submitter left it, and the item of a process with one
\* invocation is what that invocation's own writes make of it, as if it
\* ran alone.
C10_Independent ==
    \A p \in PIDs :
        /\ StartedOn(p) = {} => store[p] = PendingItem
        /\ \A i \in StartedOn(p) :
              StartedOn(p) = {i} => store[p] = ApplyWrites(PendingItem, trace[i])

\* Two invocations for different processes: one has completed while the
\* other, started before that, is in its except clause.
C10_Witness ==
    \E i, j \in Invocations :
        /\ event[i].processId # event[j].processId
        /\ pc[i] = "returned" /\ Item(i).status = "COMPLETED"
        /\ pc[j] = "set_failed" /\ Item(j).status = "PROCESSING"

\* The locals of the try block are alive and the summarization loop is
\* running or over.
InOrPastLoop(i) == pc[i] \in {"summarize", "compose", "set_completed"}

\* The summarization loop is over and the try block still runs.
PastLoop(i) == pc[i] \in {"compose", "set_completed"}

\* The number of sources with a summary in the accumulated text ns.
Summarized(ns) == Cardinality(HasKind("summary", ns))

\* The accumulated text after the sections of the first k sources.
Sections(ns, k) == SubSeq(ns, 1, 3 * k)

\* Section k of ns is the header, the summary and the separator of source r.
IsSectionOf(ns, k, r) ==
    /\ ns[3 * k - 2].kind = "header" /\ ns[3 * k - 2].rank = r.rank
    /\ ns[3 * k - 1].kind = "summary" /\ ns[3 * k - 1].rank = r.rank
    /\ ns[3 * k].kind = "separator" /\ ns[3 * k].rank = r.rank

\* The piece is part of a source's section.
IsSourcePiece(p) == p.rank # 0

\* A summarizer call that returned.
IsSummary(t) == IsSummarizerCall(t) /\ t.outcome = "ok"

\* C11: the summarized sources are always a prefix of the collected
\* sequence, one section each and in order; once the loop is over it is
\* the smallest prefix after which every collected source is consumed or
\* the accumulated text has more than 5000 words; the draft holds the
\* sections of exactly these sources, and the summarizer has returned
\* once per section and never for a source past the cutoff.
C11_SmallestPrefix ==
    \A i \in Invocations :
        InOrPastLoop(i) =>
            LET ns == news_summary[i]
                nr == news_results[i]
                m == Summarized(ns)
            IN  /\ Len(ns) = 3 * m /\ m <= Len(nr)
                /\ \A k \in 1..m : IsSectionOf(ns, k, nr[k])
                /\ Count(trace[i], IsSummary) = m
                /\ \A k \in 0..(m - 1) :
                      WordCount(Sections(ns, k)) <= news_summary_length
                /\ PastLoop(i) =>
                      /\ m = Len(nr) \/ WordCount(ns) > news_summary_length
                      /\ SelectSeq(article_draft[i], IsSourcePiece) = ns

\* Three sources were collected, the accumulated text passed 5000 words
\* with the second, no summary having been truncated, and the writer is
\* next with the sections of the first two.
C11_Witness ==
    \E i \in Invocations :
        /\ pc[i] = "compose" /\ Len(news_results[i]) = 3
        /\ Summarized(news_summary[i]) = 2
        /\ WordCount(Sections(news_summary[i], 1)) <= news_summary_length
        /\ WordCount(news_summary[i]) > news_summary_length
        /\ \A k \in HasKind("summary", news_summary[i]) :
              news_summary[i][k].response <= news_summary_length

\* The words of the summary in a summary piece, past its "#### Summary"
\* line.
SummaryWordsOf(p) == p.words - 2

\* C12: every summary appended has at most 5000 words: the summary made
\* from a response of more than 5000 words has exactly 5000 words (the
\* first 5000 of the response, by truncate_text), and a response of at
\* most 5000 words is appended with all its words, wherever the running
\* total stands.
C12_SummaryCeiling ==
    \A i \in Invocations :
        \A k \in HasKind("summary", news_summary[i]) :
            LET p == news_summary[i][k]
            IN  /\ SummaryWordsOf(p) <= news_summary_length
                /\ p.response > news_summary_length =>
                      SummaryWordsOf(p) = news_summary_length
                /\ p.response <= news_summary_length =>
                      SummaryWordsOf(p) = p.response

\* After a first section with a short summary, a response of 6000 words
\* was appended as a summary of 5000 words.
C12_Witness ==
    \E i \in Invocations :
        /\ Summarized(news_summary[i]) = 2
        /\ news_summary[i][2].response = 3
        /\ news_summary[i][5].response = 6000
        /\ SummaryWordsOf(news_summary[i][5]) = 5000

\* C13: at the start of every pass of the summarization loop the
\* accumulated text has at most 5000 words, so that the final text
\* without the section of the last source summarized has at most 5000
\* words: the budget is passed by one section at most.
C13_OvershootOneSection ==
    \A i \in Invocations :
        LET ns == news_summary[i]
        IN  /\ pc[i] = "summarize" => WordCount(ns) <= news_summary_length
            /\ PastLoop(i) /\ ns # <<>> =>
                  WordCount(Sections(ns, Summarized(ns) - 1)) <= news_summary_length

\* Three sources were summarized, the third taking the accumulated text
\* past 5000 words.
C13_Witness ==
    \E i \in Invocations :
        /\ pc[i] = "compose" /\ Summarized(news_summary[i]) = 3
        /\ WordCount(news_summary[i]) > news_summary_length
        /\ WordCount(Sections(news_summary[i], 2)) <= news_summary_length

\* C14: a search result is among the collected sources only if it has a
\* url and its extraction returned article data with a non-empty text; a
\* result without url, or whose extraction returned nothing, no text
\* field or an empty text, is never collected.
C14_CollectedHaveText ==
    \A i \in Invocations :
        \A k \in 1..Len(news_results[i]) :
            /\ news_results[i][k].hasUrl
            /\ news_results[i][k].text = "text"

\* Invocation i takes a pass of the collection loop in which
\* get_article_data returns and the result is dropped: the article data
\* is None or empty, or has no "text".
DroppedStep(i) ==
    /\ pc[i] = "extract" /\ results[i][idx[i]].hasUrl
    /\ Len(trace'[i]) = Len(trace[i]) + 1
    /\ Last(trace'[i]) = Call("get_article_data", "ok")
    /\ news_results'[i] = news_results[i]

Ranks(q) == [k \in 1..Len(q) |-> q[k].rank]

\* q is strictly increasing.
Increasing(q) == \A a, b \in 1..Len(q) : a < b => q[a] < q[b]

\* C16: the collected sources are search results in their ranking order,
\* none of them twice, and there are never more than the 5 asked for,
\* whatever the search returned.
C16_AtMostFiveInOrder ==
    \A i \in Invocations :
        /\ Increasing(Ranks(news_results[i]))
        /\ \A k \in 1..Len(news_results[i]) :
              LET r == news_results[i][k]
              IN  r.rank \in 1..Len(results[i]) /\ results[i][r.rank].rank = r.rank
        /\ Len(news_results[i]) <= max_results

IsSearchCall(t) == t.op = "news"

\* The calls of t are in the order of the stages: nothing of the search or
\* of the extractions after a summarizer call, no search after an
\* extraction, no stage call after the writer's or after one that raised,
\* and one search and one writer call at most.
StagesInOrder(t) ==
    /\ Count(t, IsSearchCall) <= 1
    /\ Count(t, IsWriterCall) <= 1
    /\ \A a, b \in 1..Len(t) :
          a < b =>
              /\ IsExtractCall(t[a]) => ~IsSearchCall(t[b])
              /\ IsSummarizerCall(t[a]) => ~IsSearchCall(t[b]) /\ ~IsExtractCall(t[b])
              /\ IsWriterCall(t[a]) => ~IsCall(t[b])
              /\ IsCall(t[a]) /\ t[a].outcome = "raise" => ~IsCall(t[b])

\* Invocation i takes a step in which it makes the call Test tells.
CallStep(i, Test(_)) ==
    /\ Len(trace'[i]) = Len(trace[i]) + 1
    /\ Test(Last(trace'[i]))

\* The summarization loop of invocation i is over, or never began.
LoopOver(i) ==
    \/ idx[i] > Len(news_results[i])
    \/ news_results[i] = <<>>
    \/ WordCount(news_summary[i]) > news_summary_length

\* C17: the stages of an invocation run one after the other: the search
\* and every extraction come before the first summarizer call; the k-th
\* summarizer call is for the k-th collected source, so the calls are in
\* collected order, one per source at most; the writer is called once at
\* most, only when the summarization loop is over, and never after a
\* stage has raised.
C17_StagesSequential ==
    [][\A i \in Invocations :
          /\ StagesInOrder(trace'[i])
          /\ CallStep(i, IsSummarizerCall) =>
                /\ pc[i] = "summarize"
                /\ idx[i] = Count(trace[i], IsSummarizerCall) + 1
                /\ idx[i] <= Len(news_results[i])
                /\ Last(trace'[i]).outcome = "ok" =>
                      /\ Summarized(news_summary'[i]) = idx[i]
                      /\ IsSectionOf(news_summary'[i], idx[i], news_results[i][idx[i]])
          /\ CallStep(i, IsWriterCall) =>
                /\ pc[i] = "compose"
                /\ LoopOver(i)
                /\ ~StageRaised(i)
                /\ Count(trace[i], IsSummary) = Summarized(news_summary[i])]_vars

\* After three extractions and the summaries of two sources, the second
\* passing the budget, the writer has been called.
C17_Witness ==
    \E i \in Invocations :
        /\ pc[i] = "set_completed"
        /\ Count(trace[i], IsExtractCall) = 3
        /\ Count(trace[i], IsSummarizerCall) = 2
        /\ Count(trace[i], IsWriterCall) = 1
        /\ Len(news_results[i]) = 3

\* C20: a summary truncated to 5000 words ends the summarization loop:
\* with the header lines before it the accumulated text has more than
\* 5000 words, the loop breaks at that source, and the truncated summary
\* is in the last section: no later source is summarized.
C20_TruncationStopsLoop ==
    \A i \in Invocations :
        \A k \in HasKind("summary", news_summary[i]) :
            news_summary[i][k].response > news_summary_length =>
                /\ pc[i] # "summarize"
                /\ WordCount(news_summary[i]) > news_summary_length
                /\ k = Len(news_summary[i]) - 1
                /\ Count(trace[i], IsSummarizerCall) = Summarized(news_summary[i])

\* The summary of the first of three sources was truncated, and the
\* writer has been called with that one section.
C20_Witness ==
    \E i \in Invocations :
        /\ pc[i] = "set_completed" /\ Len(news_results[i]) = 3
        /\ Summarized(news_summary[i]) = 1
        /\ news_summary[i][2].response = 5001
        /\ SummaryWordsOf(news_summary[i][2]) = news_summary_length
        /\ Count(trace[i], IsSummarizerCall) = 1

\* len(text.split()) of a text given by its characters.
wordCount(t) == Len(Split(t))

\* C18: for every text and every number of words >= 0, the tokens of
\* truncate_text(text, words) are the first min(wordCount(text), words)
\* whitespace-delimited tokens of text, in order, so that its word count
\* is min(wordCount(text), words); the empty text gives the empty text.
C18_FirstTokens ==
    truncated.called =>
        LET toks == Split(text)
            m == Min(Len(toks), words)
        IN  /\ Split(truncated.text) = SubSeq(toks, 1, m)
            /\ wordCount(truncated.text) = m
            /\ wordCount(truncated.text) = TruncatedWords(wordCount(text), words)
            /\ text = <<>> => truncated.text = <<>>

\* A text of three tokens was cut to its first two.
C18_Witness ==
    /\ truncated.called
    /\ text = <<"b", " ", "a", "\n", "a">> /\ words = 2
    /\ truncated.text = <<"b", " ", "a">>

\* The text has no whitespace but single spaces between two tokens.
SingleSpaced(t) ==
    \A k \in 1..Len(t) :
        t[k] \in Whitespace =>
            /\ t[k] = " "
            /\ k > 1 /\ k < Len(t)
            /\ t[k + 1] \notin Whitespace

\* C19 as stated: called on a text of at most `words` tokens,
\* truncate_text returns the text unchanged.
C19_NoOp ==
    truncated.called /\ wordCount(text) <= words => truncated.text = text

\* C19 as amended: called on a text of at most `words` tokens,
\* truncate_text returns the tokens of the text, all of them and in
\* order, joined by single spaces: the text itself exactly when it has no
\* whitespace but single spaces between its tokens.
C19_SameTokens ==
    truncated.called /\ wordCount(text) <= words =>
        /\ Split(truncated.text) = Split(text)
        /\ truncated.text = text <=> SingleSpaced(text)
        /\ SingleSpaced(truncated.text)

\* A text of two tokens with a newline and a space between them came back
\* with one space.
C19_Witness ==
    /\ truncated.called /\ words = 2
    /\ text = <<"a", "\n", " ", "b">>
    /\ truncated.text = <<"a", " ", "b">>

====
